---- MODULE Spec2Model ----
(***************************************************************************)
(* Model of user/views.py: the account handler (UserSignView) and the      *)
(* Google login bridge (GoogleTokenView) acting on the user record store.  *)
(* Strings that are split or concatenated (emails, usernames, bearer       *)
(* tokens) are sequences of one-character strings.                         *)
(***************************************************************************)
EXTENDS Integers, Sequences, FiniteSets, TLC

VARIABLES users, nextId, created, pre, op, req, resp, trace

vars == <<users, nextId, created, pre, op, req, resp, trace>>

----------------------------------------------------------------------------
(* Bounds of the model *)

MaxUsers == 2

(* Input domains *)

Emails == { <<"a","@","x">>, <<"b","@","y">> }

Usernames == { <<"a">>, <<"a","_","g">> }

\* the new password of a sign-up or an edit; its confirmation ranges over
\* Passwords
NewPasswords == { "p" }

Passwords == { "0000", "p" }

----------------------------------------------------------------------------
(* Python values *)

\* None where an id is expected (AnonymousUser.id, the default user_id)
NoneId == -1

\* None where a str is expected (a missing access_token or email)
NoneStr == << >>

Range(s) == { s[i] : i \in DOMAIN s }

\* s.split(sep)[0]
RECURSIVE SplitFirst(_, _)
SplitFirst(s, sep) ==
    IF s = << >> THEN << >>
    ELSE IF Head(s) = sep THEN << >>
    ELSE <<Head(s)>> \o SplitFirst(Tail(s), sep)

----------------------------------------------------------------------------
(* Status codes and responses *)

HTTP_200_OK == 200
HTTP_201_CREATED == 201
HTTP_400_BAD_REQUEST == 400
HTTP_401_UNAUTHORIZED == 401
HTTP_404_NOT_FOUND == 404
HTTP_500_INTERNAL_SERVER_ERROR == 500

Response(body, data, status) == [status |-> status, body |-> body, data |-> data]

Out(rows, response, steps) == [users |-> rows, resp |-> response, trace |-> steps]

----------------------------------------------------------------------------
(* The user store and the password hasher *)

make_password(raw) == <<"hash", raw>>

check_password(raw, encoded) == make_password(raw) = encoded

Ids(rows) == { u.id : u \in rows }

\* get_object_or_404 / objects.get: the rows matching the lookup
ById(rows, id) == { u \in rows : u.id = id }

ByEmail(rows, email) == { u \in rows : u.email = email }

NewUser(id, username, email, password, logintype) ==
    [id |-> id, username |-> username, email |-> email,
     password |-> make_password(password), is_active |-> TRUE,
     logintype |-> logintype]

----------------------------------------------------------------------------
(* Authentication and permission *)

\* request.user.id: None for an anonymous caller, else the id of a row the
\* authentication layer accepts (an existing active row)
Callers(rows) == {NoneId} \cup { u.id : u \in { v \in rows : v.is_active } }

SAFE_OR_SIGNUP == {"GET", "POST"}

IsAuthenticatedOrReadOrSignUp(method, caller) ==
    method \in SAFE_OR_SIGNUP \/ caller # NoneId

NotAuthenticated ==
    Response("not_authenticated", << >>, HTTP_401_UNAUTHORIZED)

NotFound == Response("not_found", << >>, HTTP_404_NOT_FOUND)

----------------------------------------------------------------------------
(* Serializers *)

UserSerializerValid(rows, data) ==
    /\ data.password = data.password2
    /\ \A u \in rows : u.username # data.username /\ u.email # data.email

UserSerializerSave(id, data) ==
    NewUser(id, data.username, data.email, data.password, "LOCAL")

UserSerializerData(user) ==
    [id |-> user.id, username |-> user.username, email |-> user.email,
     is_active |-> user.is_active, logintype |-> user.logintype]

UserSignOutSerializerValid(user, data) ==
    check_password(data.password, user.password)

UserEditSerializerValid(rows, user, data) ==
    /\ check_password(data.current_password, user.password)
    /\ "username" \in data.supplied =>
          \A u \in rows : u.id # user.id => u.username # data.username
    /\ "email" \in data.supplied =>
          \A u \in rows : u.id # user.id => u.email # data.email
    /\ "password" \in data.supplied => data.password = data.password2

UserEditSerializerSave(user, data) ==
    [user EXCEPT
       !.username = IF "username" \in data.supplied THEN data.username ELSE @,
       !.email    = IF "email" \in data.supplied THEN data.email ELSE @,
       !.password = IF "password" \in data.supplied
                    THEN make_password(data.password) ELSE @]

GoogleUserSerializerValid(rows, data) ==
    \A u \in rows : u.username # data.username /\ u.email # data.email

GoogleUserSerializerSave(id, data) ==
    NewUser(id, data.username, data.email, data.password, "GOOGLE")

----------------------------------------------------------------------------
(* UserSignView *)

PostApply_SaveAlways(rows, id, data, valid) ==
    rows \cup {UserSerializerSave(id, data)}

\* post: if serialized.is_valid(): serialized.save()
PostApply(rows, id, data, valid) ==
    IF valid THEN rows \cup {UserSerializerSave(id, data)} ELSE rows

UserSignView_post(rows, id, data) ==
    LET valid == UserSerializerValid(rows, data)
        rows2 == PostApply(rows, id, data, valid)
    IN  IF valid
        THEN Out(rows2, Response("message", << >>, HTTP_201_CREATED),
                 <<"save">>)
        ELSE Out(rows2, Response("errors", << >>, HTTP_400_BAD_REQUEST),
                 << >>)

SignOutApply_SaveAlways(rows, user, valid) ==
    (rows \ {user}) \cup {[user EXCEPT !.is_active = FALSE]}

SignOutApply_Delete(rows, user, valid) ==
    IF valid THEN rows \ {user} ELSE rows

\* put: if serializer.is_valid(): user.is_active = False; user.save()
SignOutApply(rows, user, valid) ==
    IF valid
    THEN (rows \ {user}) \cup {[user EXCEPT !.is_active = FALSE]}
    ELSE rows

UserSignView_put(rows, caller, data) ==
    LET found == ById(rows, caller)
    IN  IF found = {} THEN Out(rows, NotFound, <<"get">>)
        ELSE LET user == CHOOSE u \in found : TRUE
                 valid == UserSignOutSerializerValid(user, data)
                 rows2 == SignOutApply(rows, user, valid)
             IN  IF valid
                 THEN Out(rows2, Response("message", << >>, HTTP_200_OK),
                          <<"get", "save">>)
                 ELSE Out(rows2,
                          Response("errors", << >>, HTTP_400_BAD_REQUEST),
                          <<"get">>)

\* truth value of user_id in "user_id if user_id else request.user.id"
Truthy(user_id) == user_id # NoneId /\ user_id # 0

TargetId(user_id, caller) == IF Truthy(user_id) THEN user_id ELSE caller

UserSignView_get(rows, caller, user_id) ==
    LET found == ById(rows, TargetId(user_id, caller))
    IN  IF found = {} THEN Out(rows, NotFound, <<"get">>)
        ELSE Out(rows,
                 Response("user", <<UserSerializerData(CHOOSE u \in found : TRUE)>>,
                          HTTP_200_OK),
                 <<"get">>)

UserSignView_patch(rows, caller, data) ==
    LET found == ById(rows, caller)
    IN  IF found = {} THEN Out(rows, NotFound, <<"get">>)
        ELSE LET user == CHOOSE u \in found : TRUE
                 valid == UserEditSerializerValid(rows, user, data)
             IN  IF valid
                 THEN Out((rows \ {user}) \cup {UserEditSerializerSave(user, data)},
                          Response("message", << >>, HTTP_200_OK),
                          <<"get", "save">>)
                 ELSE Out(rows,
                          Response("errors", << >>, HTTP_400_BAD_REQUEST),
                          <<"get">>)

----------------------------------------------------------------------------
(* GoogleTokenView *)

TokenMissing_Never(access_token) == FALSE

\* if access_token is None
TokenMissing(access_token) == access_token = NoneStr

GoogleUsername_NoSuffix(email) == SplitFirst(email, "@")

\* username = email.split("@")[0] + "_g"
GoogleUsername(email) == SplitFirst(email, "@") \o <<"_", "g">>

GooglePassword_Empty == ""

\* password = "0000"
GooglePassword == "0000"

GoogleProvision_SaveAlways(rows, id, data, valid) ==
    rows \cup {GoogleUserSerializerSave(id, data)}

\* if serializer.is_valid(): serializer.save()
GoogleProvision(rows, id, data, valid) ==
    IF valid THEN rows \cup {GoogleUserSerializerSave(id, data)} ELSE rows

NotGoogle_Inverted(user) == user.logintype = "GOOGLE"

\* if user.logintype != "GOOGLE"
NotGoogle(user) == user.logintype # "GOOGLE"

\* RefreshToken.for_user(user) with the email, username, logintype claims
RefreshToken(user) ==
    [user_id |-> user.id, email |-> user.email, username |-> user.username,
     logintype |-> user.logintype]

\* from "if user.logintype" to the end of post
GoogleTokenFinish(rows, user, steps) ==
    IF NotGoogle(user)
    THEN Out(rows, Response("message", << >>, HTTP_400_BAD_REQUEST), steps)
    ELSE Out(rows, Response("tokens", <<RefreshToken(user)>>, HTTP_200_OK),
             steps \o <<"mint">>)

GoogleTokenView_post(rows, id, access_token, idp) ==
    IF TokenMissing(access_token)
    THEN Out(rows, Response("message", << >>, HTTP_401_UNAUTHORIZED), << >>)
    ELSE IF ~idp.ok
    THEN Out(rows, Response("server_error", << >>,
                            HTTP_500_INTERNAL_SERVER_ERROR), <<"idp">>)
    ELSE IF idp.email = NoneStr
    THEN Out(rows, Response("message", << >>, HTTP_401_UNAUTHORIZED),
             <<"idp">>)
    ELSE
    LET email == idp.email
        username == GoogleUsername(email)
        password == GooglePassword
        found == ByEmail(rows, email)
    IN  IF Cardinality(found) = 1
        THEN GoogleTokenFinish(rows, CHOOSE u \in found : TRUE,
                               <<"idp", "get">>)
        ELSE
        LET data == [email |-> email, username |-> username,
                     password |-> password]
            valid == GoogleUserSerializerValid(rows, data)
            rows2 == GoogleProvision(rows, id, data, valid)
            found2 == ByEmail(rows2, email)
        IN  IF ~valid
            THEN Out(rows2, Response("errors", << >>, HTTP_200_OK),
                     <<"idp", "get">>)
            ELSE IF found2 = {}
            THEN Out(rows2, NotFound, <<"idp", "get", "save", "get">>)
            ELSE GoogleTokenFinish(rows2, CHOOSE u \in found2 : TRUE,
                                   <<"idp", "get", "save", "get">>)

----------------------------------------------------------------------------
(* Requests *)

SignUpData ==
    [username : Usernames, email : Emails,
     password : NewPasswords, password2 : Passwords]

SignOutData == [password : Passwords]

EditData ==
    [current_password : Passwords, supplied : {{"username"}},
     username : Usernames, email : {NoneStr},
     password : {""}, password2 : {""}]
    \cup
    [current_password : Passwords, supplied : {{"email"}},
     username : {NoneStr}, email : Emails,
     password : {""}, password2 : {""}]
    \cup
    [current_password : Passwords, supplied : {{"password"}},
     username : {NoneStr}, email : {NoneStr},
     password : NewPasswords, password2 : Passwords]

AccessTokens == { NoneStr, <<"t">> }

\* what the identity endpoint answers for a bearer token
IdpOutcomes(access_token) ==
    IF access_token = NoneStr
    THEN { [ok |-> TRUE, email |-> NoneStr] }
    ELSE { [ok |-> FALSE, email |-> NoneStr] }
         \cup [ok : {TRUE}, email : Emails \cup {NoneStr}]

UserIdArgs == {NoneId} \cup (0 .. MaxUsers + 1)

----------------------------------------------------------------------------
(* The state machine *)

NoRequest == [method |-> "NONE"]

Init ==
    /\ users = {}
    /\ nextId = 1
    /\ created = {}
    /\ pre = {}
    /\ op = "init"
    /\ req = NoRequest
    /\ resp = Response("none", << >>, 0)
    /\ trace = << >>

\* one request handled: the store, the response and the bookkeeping
Handle(request, out) ==
    /\ Cardinality(out.users) <= MaxUsers
    /\ pre' = users
    /\ users' = out.users
    /\ nextId' = IF Ids(out.users) \subseteq Ids(users) THEN nextId
                 ELSE nextId + 1
    /\ created' = created \cup
                  { [by |-> op', row |-> u] :
                      u \in { v \in out.users : v.id \notin Ids(users) } }
    /\ req' = request
    /\ resp' = out.resp
    /\ trace' = out.trace

Create ==
    /\ op' = "post"
    /\ \E data \in SignUpData :
           LET request == [method |-> "POST", data |-> data]
               out == UserSignView_post(users, nextId, data)
           IN  Handle(request, out)

Deactivate ==
    /\ op' = "put"
    /\ \E caller \in Callers(users), data \in SignOutData :
           LET request == [method |-> "PUT", caller |-> caller, data |-> data]
               out == IF IsAuthenticatedOrReadOrSignUp("PUT", caller)
                      THEN UserSignView_put(users, caller, data)
                      ELSE Out(users, NotAuthenticated, << >>)
           IN  Handle(request, out)

Retrieve ==
    /\ op' = "get"
    /\ \E caller \in Callers(users), user_id \in UserIdArgs :
           LET request == [method |-> "GET", caller |-> caller,
                           user_id |-> user_id]
               out == IF IsAuthenticatedOrReadOrSignUp("GET", caller)
                      THEN UserSignView_get(users, caller, user_id)
                      ELSE Out(users, NotAuthenticated, << >>)
           IN  Handle(request, out)

EditUser ==
    /\ op' = "patch"
    /\ \E caller \in Callers(users), data \in EditData :
           LET request == [method |-> "PATCH", caller |-> caller, data |-> data]
               out == IF IsAuthenticatedOrReadOrSignUp("PATCH", caller)
                      THEN UserSignView_patch(users, caller, data)
                      ELSE Out(users, NotAuthenticated, << >>)
           IN  Handle(request, out)

GoogleToken ==
    /\ op' = "google_token"
    /\ \E access_token \in AccessTokens :
         \E idp \in IdpOutcomes(access_token) :
           LET request == [method |-> "POST", access_token |-> access_token,
                           idp |-> idp]
               out == GoogleTokenView_post(users, nextId, access_token, idp)
           IN  Handle(request, out)

Next == Create \/ Deactivate \/ Retrieve \/ EditUser \/ GoogleToken

Spec == Init /\ [][Next]_vars

----------------------------------------------------------------------------
(* Vocabulary of the properties *)

IsGoogleExchange == op = "google_token"

\* the exchange reached the identity endpoint and its answer carries an email
IdentityEmailKnown ==
    /\ IsGoogleExchange
    /\ req.access_token # NoneStr
    /\ req.idp.ok
    /\ req.idp.email # NoneStr

TokensReturned == resp.body = "tokens" \/ "mint" \in Range(trace)

\* l is the part of email e before its first "@"
IsLocalPartOf(l, e) ==
    /\ Len(l) < Len(e)
    /\ SubSeq(e, 1, Len(l)) = l
    /\ e[Len(l) + 1] = "@"
    /\ "@" \notin Range(l)

\* u is the username synthesized for email e
IsSynthesizedFor(u, e) ==
    /\ Len(u) >= 2
    /\ SubSeq(u, Len(u) - 1, Len(u)) = <<"_", "g">>
    /\ IsLocalPartOf(SubSeq(u, 1, Len(u) - 2), e)

NewRows == { u \in users : u.id \notin Ids(pre) }

\* exactly one row was added, it is a GOOGLE row for the identity email with
\* the synthesized username, and every earlier row is untouched
ProvisionedOne ==
    /\ pre \subseteq users
    /\ Cardinality(NewRows) = 1
    /\ users = pre \cup NewRows
    /\ \A u \in NewRows :
          /\ u.logintype = "GOOGLE"
          /\ u.email = req.idp.email
          /\ IsSynthesizedFor(u.username, u.email)

TokenPairReturned ==
    /\ resp.status = 200
    /\ resp.body = "tokens"
    /\ "mint" \in Range(trace)

----------------------------------------------------------------------------
(* C1: a Google token exchange whose identity email already belongs to a   *)
(* row with logintype other than GOOGLE returns 400, returns no token and  *)
(* leaves every row of the store unchanged.                                *)
C1_LocalEmailRejected ==
    (/\ IdentityEmailKnown
     /\ \E u \in pre : u.email = req.idp.email /\ u.logintype # "GOOGLE")
    => /\ resp.status = 400
       /\ ~TokensReturned
       /\ users = pre

C1_Witness ==
    /\ IdentityEmailKnown
    /\ \E u \in pre : u.email = req.idp.email /\ u.logintype = "LOCAL"
    /\ resp.status = 400

(* C2 as stated: a Google token exchange whose identity email no existing  *)
(* row has provisions exactly one new GOOGLE row named <local-part>_g and  *)
(* returns 200 with a token pair.                                          *)
C2_Original ==
    (/\ IdentityEmailKnown
     /\ \A u \in pre : u.email # req.idp.email)
    => ProvisionedOne /\ TokenPairReturned

(* C2 amended: such an exchange provisions exactly one new GOOGLE row      *)
(* named <local-part>_g and returns 200 with a token pair when the         *)
(* synthesized username is not taken by an existing row; when it is taken  *)
(* no row is created and the response carries the validation errors with   *)
(* status 200 and no token.                                                *)
C2_ProvisionUnlessUsernameTaken ==
    (/\ IdentityEmailKnown
     /\ \A u \in pre : u.email # req.idp.email)
    => IF \E u \in pre : IsSynthesizedFor(u.username, req.idp.email)
       THEN /\ users = pre
            /\ resp.status = 200
            /\ resp.body = "errors"
            /\ ~TokensReturned
       ELSE ProvisionedOne /\ TokenPairReturned

C2_Witness ==
    /\ IdentityEmailKnown
    /\ pre # {}
    /\ \A u \in pre : u.email # req.idp.email
    /\ ProvisionedOne
    /\ TokenPairReturned

(* C3: a Deactivate by an existing authenticated user whose password fails *)
(* validation returns 400 and leaves that user's is_active and every other *)
(* row unchanged.                                                          *)
C3_WrongPasswordKeepsActive ==
    (/\ op = "put"
     /\ \E u \in pre : u.id = req.caller
                       /\ u.password # make_password(req.data.password))
    => /\ resp.status = 400
       /\ users = pre
       /\ \A u \in users : u.id = req.caller => u.is_active

C3_Witness ==
    /\ op = "put"
    /\ Cardinality(pre) = 2
    /\ \E u \in pre : u.id = req.caller /\ u.is_active
                      /\ u.password # make_password(req.data.password)
    /\ resp.status = 400

(* C4: for every caller and every supplied target id that matches no row   *)
(* (including id 0), Retrieve returns 404 and never a user representation. *)
C4_MissingIdNotFound ==
    (/\ op = "get"
     /\ req.user_id # NoneId
     /\ req.user_id \notin Ids(pre))
    => resp.status = 404 /\ resp.body # "user"

(* C5: a Google token exchange without access_token returns 401; the       *)
(* identity endpoint is not called, no row is read or created and no token *)
(* is minted.                                                              *)
C5_NoTokenNoIdentityCall ==
    (IsGoogleExchange /\ req.access_token = NoneStr)
    => /\ resp.status = 401
       /\ trace = << >>
       /\ users = pre
       /\ ~TokensReturned

C5_Witness ==
    /\ IsGoogleExchange
    /\ req.access_token = NoneStr
    /\ resp.status = 401
    /\ users # {}

(* C6: a Create whose input fails validation (passwords differ, or the     *)
(* username or email is taken) returns 400 with the field errors and       *)
(* creates no row; a Create adds a row only when it returns 201.           *)
C6_InvalidCreateAddsNoRow ==
    op = "post" =>
      /\ (\/ req.data.password # req.data.password2
          \/ \E u \in pre : \/ u.username = req.data.username
                            \/ u.email = req.data.email)
         => /\ resp.status = 400
            /\ resp.body = "errors"
            /\ users = pre
      /\ users # pre => resp.status = 201
      /\ resp.status # 201 => users = pre

C6_Witness ==
    /\ op = "post"
    /\ req.data.password # req.data.password2
    /\ \A u \in pre : u.username # req.data.username
                      /\ u.email # req.data.email
    /\ resp.status = 400

(* C7: no two distinct rows, active or inactive, share a username, and no  *)
(* two distinct rows share an email.                                       *)
C7_UniqueUsernameAndEmail ==
    \A u, v \in users :
        (u.username = v.username \/ u.email = v.email) => u = v

C7_Witness ==
    /\ Cardinality(users) = 2
    /\ \E u \in users : ~u.is_active
    /\ \/ (op = "post" /\ resp.status = 400
           /\ req.data.password = req.data.password2)
       \/ (IsGoogleExchange /\ resp.body = "errors")

\* the row as it was created, for the row with this id
CreationOf(id) == { c \in created : c.row.id = id }

(* C8 as stated: every GOOGLE row was created by the Google token exchange *)
(* and has username <local part of its email>_g and the placeholder        *)
(* password.                                                               *)
C8_Original ==
    \A u \in users : u.logintype = "GOOGLE" =>
        /\ \E c \in CreationOf(u.id) : c.by = "google_token"
        /\ IsSynthesizedFor(u.username, u.email)
        /\ u.password = make_password("0000")

(* C8 amended: every GOOGLE row was created by the Google token exchange,  *)
(* and was created with username <local part of its email>_g and the       *)
(* placeholder password; an Edit by the account's own session may change   *)
(* username, email and password afterwards.                                *)
C8_GoogleRowsComeFromExchange ==
    \A u \in users : u.logintype = "GOOGLE" =>
        /\ CreationOf(u.id) # {}
        /\ \A c \in CreationOf(u.id) :
              /\ c.by = "google_token"
              /\ c.row.logintype = "GOOGLE"
              /\ IsSynthesizedFor(c.row.username, c.row.email)
              /\ c.row.password = make_password("0000")

C8_Witness ==
    /\ op = "patch"
    /\ resp.status = 200
    /\ \E u \in users :
          /\ u.id = req.caller
          /\ u.logintype = "GOOGLE"
          /\ ~IsSynthesizedFor(u.username, u.email)

(* C9: once a GOOGLE user has been deactivated, no later Google token      *)
(* exchange for that user's email returns a refresh/access token pair.     *)
C9_InactiveGoogleGetsNoToken ==
    (/\ IdentityEmailKnown
     /\ \E u \in pre : /\ u.email = req.idp.email
                       /\ u.logintype = "GOOGLE"
                       /\ ~u.is_active)
    => ~TokensReturned

(* C10: no operation removes a row (every row of the previous state is     *)
(* still there with the same id), and a Retrieve by the id of a            *)
(* deactivated row returns 200 with that record.                           *)
C10_RowsNeverRemoved ==
    /\ \A u \in pre : \E v \in users : v.id = u.id
    /\ \A u \in created : \E v \in users : v.id = u.row.id
    /\ (/\ op = "get"
        /\ \E u \in pre : u.id = req.user_id /\ ~u.is_active)
       => /\ resp.status = 200
          /\ resp.body = "user"
          /\ \A d \in Range(resp.data) :
                d.id = req.user_id /\ ~d.is_active

C10_Witness ==
    /\ op = "get"
    /\ \E u \in pre : u.id = req.user_id /\ ~u.is_active
    /\ resp.status = 200

====
